---- MODULE Spec2Model ----
(***************************************************************************)
(* Model of the dashboard page of the wallet application                   *)
(* (src/src/app/dashboard/page.tsx): the React state of DashboardPage, the *)
(* IndexedDB collection behind getAllWallets/saveWallet, and the three     *)
(* asynchronous flows loadWallets, handleAddWallet and handleCreateWallet. *)
(* Every await of the source is a point where the flow is suspended and    *)
(* other handlers run; a handler reads the state of the render that        *)
(* created it, so each flow carries the `wallets` and form values it       *)
(* captured when it was invoked.                                           *)
(***************************************************************************)
EXTENDS Integers, Sequences, FiniteSets, TLC

(* ------------------------------ bounds --------------------------------- *)
\* largest number of records the persisted collection holds
MaxWallets == 2
\* largest value Date.now() takes: one value for every record
MaxClock == MaxWallets

\* the longest collection an earlier session is taken to have left, where the
\* calculations are checked over collections of many values
MaxSnapshot == 2

(* --------------------------- optional values ---------------------------- *)
\* undefined / null / a missing property
None == <<>>
Some(v) == <<v>>

\* JavaScript truthiness of an optional string: undefined and "" are falsy
Truthy(o) == o # None /\ o[1] # ""

(* ------------------------------ numbers --------------------------------- *)
\* A JavaScript number is NaN or the decimal m * 10^(-e), kept normalised
\* (no trailing zero in the fraction) so that equal values are equal records.
NaN == [nan |-> TRUE, m |-> 0, e |-> 0]

RECURSIVE Norm(_, _)
Norm(m, e) ==
    IF e > 0 /\ m % 10 = 0 THEN Norm(m \div 10, e - 1)
    ELSE [nan |-> FALSE, m |-> m, e |-> e]

RECURSIVE Pow10(_)
Pow10(n) == IF n = 0 THEN 1 ELSE 10 * Pow10(n - 1)

Zero == Norm(0, 0)

\* a + b and a - b: NaN if an operand is NaN
Add(a, b) ==
    IF a.nan \/ b.nan THEN NaN
    ELSE LET e == IF a.e >= b.e THEN a.e ELSE b.e
         IN  Norm(a.m * Pow10(e - a.e) + b.m * Pow10(e - b.e), e)

Sub(a, b) ==
    IF a.nan \/ b.nan THEN NaN
    ELSE LET e == IF a.e >= b.e THEN a.e ELSE b.e
         IN  Norm(a.m * Pow10(e - a.e) - b.m * Pow10(e - b.e), e)

\* a > 0, which is false of NaN
Positive(a) == ~a.nan /\ a.m > 0

\* The result of a division is NaN, an infinity (inf is 1 or -1) or the
\* fraction num / den in lowest terms with den > 0.
Abs(n) == IF n < 0 THEN 0 - n ELSE n

RECURSIVE Gcd(_, _)
Gcd(a, b) == IF b = 0 THEN a ELSE Gcd(b, a % b)

Ratio(n, d) ==
    LET g == Gcd(Abs(n), Abs(d))
        sg == IF d < 0 THEN 0 - 1 ELSE 1
    IN  [nan |-> FALSE, inf |-> 0, num |-> sg * (n \div g), den |-> sg * (d \div g)]

RatioNaN == [nan |-> TRUE, inf |-> 0, num |-> 0, den |-> 1]
RatioInf(sign) == [nan |-> FALSE, inf |-> sign, num |-> 0, den |-> 1]
RatioZero == Ratio(0, 1)

\* (a / b) * 100: x / 0 is an infinity with the sign of x, 0 / 0 is NaN
PercentOf(a, b) ==
    IF a.nan \/ b.nan THEN RatioNaN
    ELSE IF b.m = 0
         THEN (IF a.m = 0 THEN RatioNaN ELSE RatioInf(IF a.m > 0 THEN 1 ELSE 0 - 1))
         ELSE Ratio(100 * a.m * Pow10(b.e), b.m * Pow10(a.e))

(* ------------------------------ strings --------------------------------- *)
\* The balance fields are strings the code parses; they are sequences of
\* characters.  Names, addresses, passphrases and secrets are only tested
\* for emptiness and copied, and are atomic strings.
Digits == {"0", "1", "2", "3", "4", "5", "6", "7", "8", "9"}

DigitVal(c) ==
    CASE c = "0" -> 0 [] c = "1" -> 1 [] c = "2" -> 2 [] c = "3" -> 3
      [] c = "4" -> 4 [] c = "5" -> 5 [] c = "6" -> 6 [] c = "7" -> 7
      [] c = "8" -> 8 [] c = "9" -> 9

DigitChar(d) == <<"0", "1", "2", "3", "4", "5", "6", "7", "8", "9">>[d + 1]

\* Number.prototype.toString of a non-negative integer
RECURSIVE NumToString(_)
NumToString(n) ==
    IF n < 10 THEN <<DigitChar(n)>>
    ELSE Append(NumToString(n \div 10), DigitChar(n % 10))

\* length of the longest prefix of s made of digits
RECURSIVE DigitRun(_)
DigitRun(s) ==
    IF s # <<>> /\ Head(s) \in Digits THEN 1 + DigitRun(Tail(s)) ELSE 0

\* value of a sequence of digits, read as a decimal integer
RECURSIVE DigitsVal(_)
DigitsVal(s) ==
    IF s = <<>> THEN 0
    ELSE 10 * DigitsVal(SubSeq(s, 1, Len(s) - 1)) + DigitVal(s[Len(s)])

Drop(s, n) == SubSeq(s, n + 1, Len(s))
Take(s, n) == SubSeq(s, 1, n)

RECURSIVE TrimLeft(_)
TrimLeft(s) == IF s # <<>> /\ Head(s) = " " THEN TrimLeft(Tail(s)) ELSE s


\* Number.parseFloat: skips leading blanks, reads an optional sign, then the
\* longest prefix that is a decimal literal (digits, an optional fraction, an
\* optional exponent that has at least one digit); whatever follows is
\* ignored, and the result is NaN when no digit was read.  Binary rounding of
\* the result is not modelled: the value is the exact decimal.
ParseFloat(s) ==
    LET t == TrimLeft(s)
        neg == t # <<>> /\ Head(t) = "-"
        u == IF t # <<>> /\ Head(t) \in {"+", "-"} THEN Tail(t) ELSE t
        ni == DigitRun(u)
        r1 == Drop(u, ni)
        dot == r1 # <<>> /\ Head(r1) = "."
        nf == IF dot THEN DigitRun(Tail(r1)) ELSE 0
        r2 == IF dot THEN Drop(r1, nf + 1) ELSE r1
        mant == DigitsVal(Take(u, ni) \o (IF dot THEN Take(Tail(r1), nf) ELSE <<>>))
        r3 == IF r2 # <<>> /\ Head(r2) \in {"e", "E"} THEN Tail(r2) ELSE <<>>
        eneg == r3 # <<>> /\ Head(r3) = "-"
        r4 == IF r3 # <<>> /\ Head(r3) \in {"+", "-"} THEN Tail(r3) ELSE r3
        ne == DigitRun(r4)
        ex == IF ne = 0 THEN 0
              ELSE IF eneg THEN 0 - DigitsVal(Take(r4, ne)) ELSE DigitsVal(Take(r4, ne))
        sm == IF neg THEN 0 - mant ELSE mant
        scale == nf - ex
    IN  IF ni + nf = 0 THEN NaN
        ELSE IF scale >= 0 THEN Norm(sm, scale)
        ELSE Norm(sm * Pow10(0 - scale), 0)

(* ------------------------------ inputs ---------------------------------- *)
\* what the user can type into the two forms
Networks == {"ethereum", "bnb"}
EmptyNewWalletForm ==
    [name |-> "", address |-> "", network |-> "ethereum",
     balance |-> <<>>, balanceUSD |-> <<>>]
EmptyCreateWalletForm == [name |-> "", network |-> "ethereum", passphrase |-> ""]

\* a filled-in add form, and the forms that differ from it in one field:
\* a text field left empty, or an amount that is not a number ("x")
FilledNewWalletForm ==
    [name |-> "W2", address |-> "0xdef", network |-> "bnb",
     balance |-> <<"1", ".", "5">>, balanceUSD |-> <<"3", "0", "0", ".", "0", "0">>]
NewWalletForms ==
    {EmptyNewWalletForm, FilledNewWalletForm,
     [FilledNewWalletForm EXCEPT !.network = "ethereum", !.balanceUSD = <<"2", "0">>]}
    \cup {[FilledNewWalletForm EXCEPT !.name = ""],
          [FilledNewWalletForm EXCEPT !.address = ""],
          [FilledNewWalletForm EXCEPT !.balance = <<>>],
          [FilledNewWalletForm EXCEPT !.balanceUSD = <<>>]}
    \cup {[FilledNewWalletForm EXCEPT !.balance = <<"x">>],
          [FilledNewWalletForm EXCEPT !.balanceUSD = <<"x">>]}

\* a filled-in creation form, and the forms that differ from it in one field
FilledCreateWalletForm == [name |-> "W1", network |-> "ethereum", passphrase |-> "pw123"]
CreateWalletForms ==
    {EmptyCreateWalletForm, FilledCreateWalletForm,
     [FilledCreateWalletForm EXCEPT !.network = "bnb", !.passphrase = "pw456"],
     [FilledCreateWalletForm EXCEPT !.name = ""],
     [FilledCreateWalletForm EXCEPT !.passphrase = ""]}

\* what cryptoWebApiClient.createWallet can resolve with
ProviderKeys == {None, Some("k1")}
ProviderMnemonics == {None, Some("m1 m2")}
ProviderResponses ==
    [address : {"0xabc"}, key : ProviderKeys, mnemonic : ProviderMnemonics]

\* the plaintext secrets a provider response can carry
Secrets == {o[1] : o \in {x \in ProviderKeys \cup ProviderMnemonics : x # None}}

(* ------------------------- @/lib/crypto (cipher) ------------------------- *)
\* encryptPrivateKey(plaintext, passphrase): a blob made with a fresh salt;
\* the ciphertext is symbolic and opens only under the sealing passphrase.
encryptPrivateKey(plaintext, passphrase, salt) ==
    [salt |-> salt, ct |-> [pt |-> plaintext, pass |-> passphrase, salt |-> salt]]

\* the inverse of the cipher: the plaintext, or None on a wrong passphrase
OpenBlob(blob, passphrase) ==
    IF blob.ct.pass = passphrase /\ blob.ct.salt = blob.salt
    THEN Some(blob.ct.pt) ELSE None

(* ---------------------- @/lib/accountDb (the store) ---------------------- *)
HasId(records, id) == \E i \in 1..Len(records) : records[i].id = id

\* saveWallet(db, wallet) commits the record unless its id is already stored
saveWalletAccepts(records, wallet) == ~HasId(records, wallet.id)
saveWallet(records, wallet) == Append(records, wallet)

\* getAllWallets(db): a snapshot of the collection
getAllWallets(records) == records

(* --------------------------- program state ------------------------------ *)
VARIABLES
    db,                 \* useAccountStore().db is set (TRUE) or null (FALSE)
    persisted,          \* the IndexedDB collection of wallet records
    clock,              \* the value Date.now() returns
    wallets,            \* useState: the in-memory wallets list
    newWalletForm,      \* useState: the manual-add form
    createWalletForm,   \* useState: the creation form
    isCreatingWallet,   \* useState
    showAddModal,       \* useState
    showCreateModal,    \* useState
    showSuccessModal,   \* useState
    newlyCreatedWallet, \* useState: the disclosure payload or None
    consoleOut,         \* what the step just taken wrote to the console
    alerts,             \* the message the step just taken showed with alert()
    returned,           \* the submit handler that returned at its guard in the step just taken
    ld,                 \* the loadWallets flow
    aw,                 \* the handleAddWallet flow
    cw                  \* the handleCreateWallet flow

store == <<db, persisted, clock>>
forms == <<newWalletForm, createWalletForm>>
dialogs == <<showAddModal, showCreateModal, showSuccessModal>>
out == <<consoleOut, alerts, returned>>
flows == <<ld, aw, cw>>
vars == <<store, wallets, forms, isCreatingWallet, dialogs, newlyCreatedWallet, out, flows>>

\* A flow is idle, or suspended at an await with the values its closure holds.
IdleLoad == [pc |-> "idle", snap |-> <<>>]
IdleAdd == [pc |-> "idle", wallets |-> <<>>, data |-> None]
IdleCreate == [pc |-> "idle", wallets |-> <<>>, form |-> EmptyCreateWalletForm,
               resp |-> None, epk |-> None, emn |-> None, data |-> None]

AddInFlight == aw.pc # "idle"
CreateInFlight == cw.pc # "idle"

\* records not yet committed that running flows may still insert
Pending ==
    (IF aw.pc = "saving" THEN 1 ELSE 0)
    + (IF cw.pc \in {"requesting", "sealingKey", "sealingMnemonic", "saving"} THEN 1 ELSE 0)

\* a collection left by an earlier session: empty, or one manually added wallet
OldWallet ==
    [id |-> NumToString(0), name |-> "W0", address |-> "0xold", network |-> "bnb",
     balance |-> Norm(2, 0), balanceUSD |-> Norm(40, 0), change24h |-> Norm(4, 0),
     changePercent24h |-> Norm(10, 0), tokens |-> <<>>, transactions |-> <<>>,
     encryptedPrivateKey |-> None, encryptedMnemonic |-> None]
InitialStores == {<<>>, <<OldWallet>>}

Init ==
    /\ db = FALSE
    /\ persisted \in InitialStores
    /\ clock = 1
    /\ wallets = <<>>
    /\ newWalletForm = EmptyNewWalletForm
    /\ createWalletForm = EmptyCreateWalletForm
    /\ isCreatingWallet = FALSE
    /\ showAddModal = FALSE
    /\ showCreateModal = FALSE
    /\ showSuccessModal = FALSE
    /\ newlyCreatedWallet = None
    /\ consoleOut = <<>>
    /\ alerts = None
    /\ returned = ""
    /\ ld = IdleLoad
    /\ aw = IdleAdd
    /\ cw = IdleCreate

(* ---------------------------- calculations ------------------------------ *)
\* records.reduce((sum, wallet) => sum + wallet.balanceUSD, 0), from the left
RECURSIVE ReduceBalanceUSD(_, _)
ReduceBalanceUSD(records, sum) ==
    IF records = <<>> THEN sum
    ELSE ReduceBalanceUSD(Tail(records), Add(sum, Head(records).balanceUSD))

\* records.reduce((sum, wallet) => sum + wallet.change24h, 0)
RECURSIVE ReduceChange24h(_, _)
ReduceChange24h(records, sum) ==
    IF records = <<>> THEN sum
    ELSE ReduceChange24h(Tail(records), Add(sum, Head(records).change24h))

\* a faulty total that adds up the balance field: C11 tells it apart from
\* totalBalance
totalBalanceOfBalance == ReduceBalanceUSD([k \in 1..Len(wallets) |->
                             [balanceUSD |-> wallets[k].balance]], Zero)

\* a faulty percentage, relative to the total of today: C12 tells it apart
\* from totalChangePercent
totalChangePercentOfTotal ==
    IF Positive(ReduceBalanceUSD(wallets, Zero))
    THEN PercentOf(ReduceChange24h(wallets, Zero), ReduceBalanceUSD(wallets, Zero))
    ELSE RatioZero

\* what every render computes from the wallets state
totalBalance == ReduceBalanceUSD(wallets, Zero)
totalChange == ReduceChange24h(wallets, Zero)
totalChangePercent ==
    IF Positive(totalBalance)
    THEN PercentOf(totalChange, Sub(totalBalance, totalChange))
    ELSE RatioZero

\* one call of console.log / console.error: a text, the message of an error
\* object passed along ("" when none is), an object passed along (or None)
LogEntry(fn, msg, err, obj) == [fn |-> fn, msg |-> msg, err |-> err, obj |-> obj]

\* what a step writes to the console and shows with alert(), and the submit
\* handler ("add", "create") whose guard made it return without doing anything
Emit(c, a, r) == consoleOut' = c /\ alerts' = a /\ returned' = r
Quiet == Emit(<<>>, None, "")

(* --------------------------- environment -------------------------------- *)
\* the ids a record, stored or about to be stored, carries
IdsInUse ==
    {persisted[k].id : k \in 1..Len(persisted)}
    \cup {d[1].id : d \in {x \in {aw.data, cw.data} : x # None}}

\* time passes; a millisecond no record was made in is not told apart from
\* the next
Tick ==
    /\ clock < MaxClock
    /\ NumToString(clock) \in IdsInUse
    /\ clock' = clock + 1
    /\ Quiet
    /\ UNCHANGED <<db, persisted, wallets, forms, isCreatingWallet, dialogs,
                   newlyCreatedWallet, flows>>

(* ----------------------------- loadWallets ------------------------------ *)
\* the account store hands the page a db; the effect runs loadWallets, which
\* calls getAllWallets and is suspended
DbOpened ==
    /\ ~db
    /\ db' = TRUE
    /\ ld' = [pc |-> "reading", snap |-> <<>>]
    /\ Quiet
    /\ UNCHANGED <<persisted, clock, wallets, forms, isCreatingWallet, dialogs,
                   newlyCreatedWallet, aw, cw>>

\* getAllWallets reads the collection
LoadRead ==
    /\ ld.pc = "reading"
    /\ ld' = [pc |-> "resolved", snap |-> getAllWallets(persisted)]
    /\ Quiet
    /\ UNCHANGED <<store, wallets, forms, isCreatingWallet, dialogs,
                   newlyCreatedWallet, aw, cw>>

\* getAllWallets rejects: the catch block logs the error
LoadFail ==
    /\ ld.pc = "reading"
    /\ ld' = IdleLoad
    /\ Emit(<<LogEntry("error", "Error loading wallets:", "read failed", None)>>,
            None, "")
    /\ UNCHANGED <<store, wallets, forms, isCreatingWallet, dialogs,
                   newlyCreatedWallet, aw, cw>>

\* loadWallets resumes: setWallets(loadedWallets)
LoadDone ==
    /\ ld.pc = "resolved"
    /\ wallets' = ld.snap
    /\ ld' = IdleLoad
    /\ Emit(<<>>, None, "")
    /\ UNCHANGED <<store, forms, isCreatingWallet, dialogs, newlyCreatedWallet, aw, cw>>

(* ------------------------------ dialogs --------------------------------- *)
\* A form and its buttons exist while their dialog is open.  The page never
\* sets showAddModal to true, so the add form is taken to be editable and
\* submittable whenever the page is mounted.

\* <Dialog open={showAddModal} onOpenChange={setShowAddModal}> is dismissed,
\* or the Cancel button of the add form is pressed
CloseAddModal ==
    /\ showAddModal' = FALSE
    /\ Quiet
    /\ UNCHANGED <<store, wallets, forms, isCreatingWallet, showCreateModal,
                   showSuccessModal, newlyCreatedWallet, flows>>

\* the Create button of the page
OpenCreateModal ==
    /\ ~showCreateModal
    /\ showCreateModal' = TRUE
    /\ Quiet
    /\ UNCHANGED <<store, wallets, forms, isCreatingWallet, showAddModal,
                   showSuccessModal, newlyCreatedWallet, flows>>

\* <Dialog open={showCreateModal} onOpenChange={setShowCreateModal}> is
\* dismissed, or the Cancel button of the creation form (disabled while
\* isCreatingWallet) is pressed
CloseCreateModal ==
    /\ showCreateModal
    /\ showCreateModal' = FALSE
    /\ Quiet
    /\ UNCHANGED <<store, wallets, forms, isCreatingWallet, showAddModal,
                   showSuccessModal, newlyCreatedWallet, flows>>

\* <Dialog open={showSuccessModal} onOpenChange={setShowSuccessModal}> is
\* dismissed (Escape, a click outside, the close button of the dialog)
CloseSuccessModal ==
    /\ showSuccessModal
    /\ showSuccessModal' = FALSE
    /\ Quiet
    /\ UNCHANGED <<store, wallets, forms, isCreatingWallet, showAddModal,
                   showCreateModal, newlyCreatedWallet, flows>>

\* the "I've Saved My Wallet Information" button of the success dialog
DismissSuccess ==
    /\ showSuccessModal
    /\ showSuccessModal' = FALSE
    /\ newlyCreatedWallet' = None
    /\ Quiet
    /\ UNCHANGED <<store, wallets, forms, isCreatingWallet, showAddModal,
                   showCreateModal, flows>>

(* ------------------------------- forms ---------------------------------- *)
\* the onChange handlers of the inputs of the add form, each of which
\* replaces one field: the user brings the form to `form`
EditNewWalletForm(form) ==
    /\ form # newWalletForm
    /\ newWalletForm' = form
    /\ Quiet
    /\ UNCHANGED <<store, wallets, createWalletForm, isCreatingWallet, dialogs,
                   newlyCreatedWallet, flows>>

\* the onChange handlers of the inputs of the creation form
EditCreateWalletForm(form) ==
    /\ showCreateModal
    /\ form # createWalletForm
    /\ createWalletForm' = form
    /\ Quiet
    /\ UNCHANGED <<store, wallets, newWalletForm, isCreatingWallet, dialogs,
                   newlyCreatedWallet, flows>>

(* --------------------------- handleAddWallet ---------------------------- *)
\* a faulty guard that does not test the balance: C9 tells it apart from
\* AddValid
AddValidNoBalance(form) ==
    /\ form.name # ""
    /\ form.address # ""
    /\ form.balanceUSD # <<>>
    /\ db

\* the guard of handleAddWallet: every text field is non-empty and db is set
AddValid(form) ==
    /\ form.name # ""
    /\ form.address # ""
    /\ form.balance # <<>>
    /\ form.balanceUSD # <<>>
    /\ db

\* a faulty record whose amounts are parsed as integers (parseInt): C8 tells
\* it apart from NewWallet
NewWalletParseInt(form, now) ==
    [id |-> NumToString(now), name |-> form.name, address |-> form.address,
     network |-> form.network,
     balance |-> Norm(DigitsVal(Take(form.balance, DigitRun(form.balance))), 0),
     balanceUSD |-> Norm(DigitsVal(Take(form.balanceUSD, DigitRun(form.balanceUSD))), 0),
     change24h |-> Zero, changePercent24h |-> Zero, tokens |-> <<>>,
     transactions |-> <<>>, encryptedPrivateKey |-> None, encryptedMnemonic |-> None]

\* the record handleAddWallet builds from the form
NewWallet(form, now) ==
    [id |-> NumToString(now), name |-> form.name, address |-> form.address,
     network |-> form.network, balance |-> ParseFloat(form.balance),
     balanceUSD |-> ParseFloat(form.balanceUSD), change24h |-> Zero,
     changePercent24h |-> Zero, tokens |-> <<>>, transactions |-> <<>>,
     encryptedPrivateKey |-> None, encryptedMnemonic |-> None]

\* submit with a field missing or no db: the handler returns at once
AddSubmitRejected ==
    /\ ~AddValid(newWalletForm)
    /\ Emit(<<>>, None, "add")
    /\ UNCHANGED <<store, wallets, forms, isCreatingWallet, dialogs,
                   newlyCreatedWallet, flows>>

\* submit: the handler parses the balances, builds the record, calls
\* saveWallet and is suspended
AddSubmit ==
    /\ ~AddInFlight
    /\ AddValid(newWalletForm)
    /\ Len(persisted) + Pending < MaxWallets
    /\ aw' = [pc |-> "saving", wallets |-> wallets,
              data |-> Some(NewWallet(newWalletForm, clock))]
    /\ Quiet
    /\ UNCHANGED <<store, wallets, forms, isCreatingWallet, dialogs,
                   newlyCreatedWallet, ld, cw>>

\* saveWallet commits the record
AddSaveCommit ==
    /\ aw.pc = "saving"
    /\ saveWalletAccepts(persisted, aw.data[1])
    /\ persisted' = saveWallet(persisted, aw.data[1])
    /\ aw' = [aw EXCEPT !.pc = "saved"]
    /\ Quiet
    /\ UNCHANGED <<db, clock, wallets, forms, isCreatingWallet, dialogs,
                   newlyCreatedWallet, ld, cw>>

\* the errors saveWallet can reject a record with
SaveErrors(records, wallet) ==
    {"storage failure"} \cup (IF HasId(records, wallet.id) THEN {"DuplicateId"} ELSE {})

\* a faulty handler that adds the record to the list although saveWallet
\* rejected it: C5 tells it apart from AddSaveReject
AddSaveRejectStillLists ==
    /\ aw.pc = "saving"
    /\ \E e \in SaveErrors(persisted, aw.data[1]) :
         Emit(<<LogEntry("error", "Error saving wallet:", e, None)>>, None, "")
    /\ wallets' = Append(aw.wallets, aw.data[1])
    /\ aw' = IdleAdd
    /\ UNCHANGED <<store, forms, isCreatingWallet, dialogs, newlyCreatedWallet, ld, cw>>

\* saveWallet rejects; the catch block logs the error
AddSaveReject ==
    /\ aw.pc = "saving"
    /\ \E e \in SaveErrors(persisted, aw.data[1]) :
         Emit(<<LogEntry("error", "Error saving wallet:", e, None)>>, None, "")
    /\ aw' = IdleAdd
    /\ UNCHANGED <<store, wallets, forms, isCreatingWallet, dialogs,
                   newlyCreatedWallet, ld, cw>>

\* the handler resumes after saveWallet: setWallets([...wallets, newWallet])
\* with the list it captured, closes the dialog and resets the form
AddSaveDone ==
    /\ aw.pc = "saved"
    /\ wallets' = Append(aw.wallets, aw.data[1])
    /\ showAddModal' = FALSE
    /\ newWalletForm' = EmptyNewWalletForm
    /\ aw' = IdleAdd
    /\ Emit(<<>>, None, "")
    /\ UNCHANGED <<store, createWalletForm, isCreatingWallet, showCreateModal,
                   showSuccessModal, newlyCreatedWallet, ld, cw>>

(* -------------------------- handleCreateWallet -------------------------- *)
\* the guard of handleCreateWallet
CreateValid(form) ==
    /\ form.name # ""
    /\ form.network # ""
    /\ form.passphrase # ""
    /\ db

\* the values a failing call can throw: an Error with a message, or a value
\* that is no Error
Thrown(message) == [isError |-> TRUE, message |-> message]
ThrownValue == [isError |-> FALSE, message |-> ""]
ProviderFailures == {Thrown("provider unavailable"), ThrownValue}

\* error instanceof Error ? error.message : 'Unknown error'
ErrMessage(e) == IF e.isError THEN e.message ELSE "Unknown error"

MissingKeyMessage == "Private key is missing in the wallet creation response"

\* a salt no blob of the page or of the collection carries
BlobsOf(records) ==
    UNION {{b[1] : b \in {o \in {records[i].encryptedPrivateKey,
                                  records[i].encryptedMnemonic} : o # None}} :
           i \in 1..Len(records)}
UsedSalts ==
    {b.salt : b \in BlobsOf(persisted) \cup BlobsOf(wallets)
                      \cup {o[1] : o \in {x \in {cw.epk, cw.emn} : x # None}}}
FreshSalt == CHOOSE n \in 1..(2 * MaxWallets + 2) :
                /\ n \notin UsedSalts
                /\ \A k \in 1..(n - 1) : k \in UsedSalts

\* a faulty record that carries the key of the response in a text field: C3
\* tells it apart from WalletData
WalletDataWithKey(form, resp, epk, emn, now) ==
    [id |-> NumToString(now), name |-> form.name, address |-> resp.key[1],
     network |-> form.network, balance |-> Zero, balanceUSD |-> Zero,
     change24h |-> Zero, changePercent24h |-> Zero, tokens |-> <<>>,
     transactions |-> <<>>, encryptedPrivateKey |-> epk, encryptedMnemonic |-> emn]

\* the record handleCreateWallet builds
WalletData(form, resp, epk, emn, now) ==
    [id |-> NumToString(now), name |-> form.name, address |-> resp.address,
     network |-> form.network, balance |-> Zero, balanceUSD |-> Zero,
     change24h |-> Zero, changePercent24h |-> Zero, tokens |-> <<>>,
     transactions |-> <<>>, encryptedPrivateKey |-> epk, encryptedMnemonic |-> emn]

\* the payload handleCreateWallet keeps for the success dialog
Disclosure(form, resp) ==
    [address |-> resp.address, privateKey |-> resp.key[1], mnemonic |-> resp.mnemonic,
     network |-> form.network, name |-> form.name]

\* submit with a field missing or no db: the handler returns at once
\* (the submit button is disabled while isCreatingWallet)
CreateSubmitRejected ==
    /\ showCreateModal
    /\ ~isCreatingWallet
    /\ ~CreateValid(createWalletForm)
    /\ Emit(<<>>, None, "create")
    /\ UNCHANGED <<store, wallets, forms, isCreatingWallet, dialogs,
                   newlyCreatedWallet, flows>>

\* submit: setIsCreatingWallet(true), the provider is called and the handler
\* is suspended
CreateSubmit ==
    /\ showCreateModal
    /\ ~isCreatingWallet
    /\ CreateValid(createWalletForm)
    /\ Len(persisted) + Pending < MaxWallets
    /\ isCreatingWallet' = TRUE
    /\ cw' = [IdleCreate EXCEPT !.pc = "requesting", !.wallets = wallets,
                                !.form = createWalletForm]
    /\ Quiet
    /\ UNCHANGED <<store, wallets, forms, dialogs, newlyCreatedWallet, ld, aw>>

\* a faulty catch block, as if the success dialog were opened in the finally
\* block: C1 tells it apart from CreateCatch
CreateCatchOpensSuccess(e, logged) ==
    /\ Emit(logged \o <<LogEntry("error", "Error creating wallet:", e.message, None)>>,
            Some(<<"Error creating wallet2: ", ErrMessage(e)>>), "")
    /\ isCreatingWallet' = FALSE
    /\ showSuccessModal' = TRUE
    /\ cw' = IdleCreate
    /\ UNCHANGED <<store, wallets, forms, showAddModal, showCreateModal,
                   newlyCreatedWallet, ld, aw>>

\* the catch and finally blocks: console.error, alert, setIsCreatingWallet(false)
CreateCatch(e, logged) ==
    /\ Emit(logged \o <<LogEntry("error", "Error creating wallet:", e.message, None)>>,
            Some(<<"Error creating wallet2: ", ErrMessage(e)>>), "")
    /\ isCreatingWallet' = FALSE
    /\ cw' = IdleCreate
    /\ UNCHANGED <<store, wallets, forms, dialogs, newlyCreatedWallet, ld, aw>>

\* the provider call throws
ProviderReject(e) ==
    /\ cw.pc = "requesting"
    /\ CreateCatch(e, <<>>)

\* the provider resolves with a response that has no key: the response is
\* logged and the handler throws
ProviderResolveNoKey(resp) ==
    /\ cw.pc = "requesting"
    /\ ~Truthy(resp.key)
    /\ CreateCatch(Thrown(MissingKeyMessage), <<LogEntry("log", "", "", Some(resp))>>)

\* the provider resolves with a key: encryptPrivateKey is called on the key
ProviderResolveKey(resp) ==
    /\ cw.pc = "requesting"
    /\ Truthy(resp.key)
    /\ cw' = [cw EXCEPT !.pc = "sealingKey", !.resp = Some(resp)]
    /\ Quiet
    /\ UNCHANGED <<store, wallets, forms, isCreatingWallet, dialogs,
                   newlyCreatedWallet, ld, aw>>

\* a faulty handler that adds the record to the list before saveWallet has
\* settled: C2 tells it apart from CreateCallSave
CreateCallSaveOptimistic(epk, emn) ==
    /\ cw' = [cw EXCEPT !.pc = "saving", !.epk = epk, !.emn = emn,
                        !.data = Some(WalletData(cw.form, cw.resp[1], epk, emn, clock))]
    /\ wallets' = Append(wallets, WalletData(cw.form, cw.resp[1], epk, emn, clock))
    /\ Quiet
    /\ UNCHANGED <<store, forms, isCreatingWallet, dialogs, newlyCreatedWallet, ld, aw>>

\* a faulty handler that sets the disclosure payload and opens the success
\* dialog when it calls saveWallet, not after: C4 tells it apart from
\* CreateCallSave
CreateCallSaveDiscloses(epk, emn) ==
    /\ cw' = [cw EXCEPT !.pc = "saving", !.epk = epk, !.emn = emn,
                        !.data = Some(WalletData(cw.form, cw.resp[1], epk, emn, clock))]
    /\ newlyCreatedWallet' = Some(Disclosure(cw.form, cw.resp[1]))
    /\ showSuccessModal' = TRUE
    /\ Quiet
    /\ UNCHANGED <<store, wallets, forms, isCreatingWallet, showAddModal,
                   showCreateModal, ld, aw>>

\* the handler calls saveWallet with the record it assembled
CreateCallSave(epk, emn) ==
    /\ cw' = [cw EXCEPT !.pc = "saving", !.epk = epk, !.emn = emn,
                        !.data = Some(WalletData(cw.form, cw.resp[1], epk, emn, clock))]
    /\ Quiet
    /\ UNCHANGED <<store, wallets, forms, isCreatingWallet, dialogs,
                   newlyCreatedWallet, ld, aw>>

\* a faulty handler that never seals the mnemonic: C7 tells it apart from
\* SealKeyResolve
SealKeyResolveSkipsMnemonic ==
    /\ cw.pc = "sealingKey"
    /\ CreateCallSave(
         Some(encryptPrivateKey(cw.resp[1].key[1], cw.form.passphrase, FreshSalt)), None)

\* the key is sealed; a truthy mnemonic is sealed next, otherwise the record
\* is assembled and saveWallet is called
SealKeyResolve ==
    /\ cw.pc = "sealingKey"
    /\ LET epk == Some(encryptPrivateKey(cw.resp[1].key[1], cw.form.passphrase, FreshSalt))
       IN  IF Truthy(cw.resp[1].mnemonic)
           THEN /\ cw' = [cw EXCEPT !.pc = "sealingMnemonic", !.epk = epk]
                /\ Quiet
                /\ UNCHANGED <<store, wallets, forms, isCreatingWallet, dialogs,
                               newlyCreatedWallet, ld, aw>>
           ELSE CreateCallSave(epk, None)

\* the mnemonic is sealed; the record is assembled and saveWallet is called
SealMnemonicResolve ==
    /\ cw.pc = "sealingMnemonic"
    /\ CreateCallSave(cw.epk,
         Some(encryptPrivateKey(cw.resp[1].mnemonic[1], cw.form.passphrase, FreshSalt)))

\* a faulty handler that swallows a failed sealing of the mnemonic and saves
\* the record without it: C15 tells it apart from SealReject
SealRejectIgnored ==
    /\ cw.pc \in {"sealingKey", "sealingMnemonic"}
    /\ IF cw.pc = "sealingMnemonic"
       THEN CreateCallSave(cw.epk, None)
       ELSE CreateCatch(Thrown("encryption failed"), <<>>)

\* encryptPrivateKey rejects
SealReject ==
    /\ cw.pc \in {"sealingKey", "sealingMnemonic"}
    /\ CreateCatch(Thrown("encryption failed"), <<>>)

\* saveWallet commits the record
CreateSaveCommit ==
    /\ cw.pc = "saving"
    /\ saveWalletAccepts(persisted, cw.data[1])
    /\ persisted' = saveWallet(persisted, cw.data[1])
    /\ cw' = [cw EXCEPT !.pc = "saved"]
    /\ Quiet
    /\ UNCHANGED <<db, clock, wallets, forms, isCreatingWallet, dialogs,
                   newlyCreatedWallet, ld, aw>>

\* saveWallet rejects
CreateSaveReject ==
    /\ cw.pc = "saving"
    /\ \E e \in SaveErrors(persisted, cw.data[1]) : CreateCatch(Thrown(e), <<>>)

\* a faulty handler whose success path skips setIsCreatingWallet(false), as
\* if the reset were not in a finally block: C20 tells it apart from CreateDone
CreateDoneKeepsCreating ==
    /\ cw.pc = "saved"
    /\ wallets' = Append(cw.wallets, cw.data[1])
    /\ newlyCreatedWallet' = Some(Disclosure(cw.form, cw.resp[1]))
    /\ showCreateModal' = FALSE
    /\ showSuccessModal' = TRUE
    /\ createWalletForm' = EmptyCreateWalletForm
    /\ cw' = IdleCreate
    /\ Emit(<<>>, None, "")
    /\ UNCHANGED <<store, newWalletForm, showAddModal, isCreatingWallet, ld, aw>>

\* the handler resumes after saveWallet: setWallets([...wallets, walletData])
\* with the list it captured, the disclosure payload is set, the success
\* dialog replaces the creation dialog, the form is reset and
\* setIsCreatingWallet(false) runs
CreateDone ==
    /\ cw.pc = "saved"
    /\ wallets' = Append(cw.wallets, cw.data[1])
    /\ newlyCreatedWallet' = Some(Disclosure(cw.form, cw.resp[1]))
    /\ showCreateModal' = FALSE
    /\ showSuccessModal' = TRUE
    /\ createWalletForm' = EmptyCreateWalletForm
    /\ isCreatingWallet' = FALSE
    /\ cw' = IdleCreate
    /\ Emit(<<>>, None, "")
    /\ UNCHANGED <<store, newWalletForm, showAddModal, ld, aw>>

(* --------------------------- specifications ---------------------------- *)
\* the store, the clock and loadWallets
EnvNext ==
    \/ Tick
    \/ DbOpened
    \/ LoadRead
    \/ LoadFail
    \/ LoadDone

\* handleAddWallet, the user typing one of `addForms` into the add form
AddNext(addForms) ==
    \/ CloseAddModal
    \/ \E form \in addForms : EditNewWalletForm(form)
    \/ AddSubmitRejected
    \/ AddSubmit
    \/ AddSaveCommit
    \/ AddSaveReject
    \/ AddSaveDone

\* handleCreateWallet and the success dialog, the user typing one of
\* `createForms` into the creation form
CreateNext(createForms) ==
    \/ OpenCreateModal
    \/ CloseCreateModal
    \/ CloseSuccessModal
    \/ DismissSuccess
    \/ \E form \in createForms : EditCreateWalletForm(form)
    \/ CreateSubmitRejected
    \/ CreateSubmit
    \/ \E e \in ProviderFailures : ProviderReject(e)
    \/ \E resp \in ProviderResponses : ProviderResolveNoKey(resp)
    \/ \E resp \in ProviderResponses : ProviderResolveKey(resp)
    \/ SealKeyResolve
    \/ SealMnemonicResolve
    \/ SealReject
    \/ CreateSaveCommit
    \/ CreateSaveReject
    \/ CreateDone

\* The page with all its flows running against each other; a form is empty
\* (at first, and when its handler has reset it) or filled in by the user.
Next ==
    \/ EnvNext
    \/ AddNext({FilledNewWalletForm})
    \/ CreateNext({FilledCreateWalletForm})

Spec == Init /\ [][Next]_vars

\* The page used for manual adds only, with every form of NewWalletForms.
NextAdd == EnvNext \/ AddNext(NewWalletForms)

SpecAdd == Init /\ [][NextAdd]_vars

\* The page used for creations only, with every form of CreateWalletForms.
NextCreate == EnvNext \/ CreateNext(CreateWalletForms)

SpecCreate == Init /\ [][NextCreate]_vars

\* the steps in which a suspended handleCreateWallet resumes: the promise it
\* awaits (provider call, encryptPrivateKey, saveWallet) settles and the
\* handler runs to its next await or to its end
CreateResumes ==
    \/ \E e \in ProviderFailures : ProviderReject(e)
    \/ \E resp \in ProviderResponses : ProviderResolveNoKey(resp)
    \/ \E resp \in ProviderResponses : ProviderResolveKey(resp)
    \/ SealKeyResolve
    \/ SealMnemonicResolve
    \/ SealReject
    \/ CreateSaveCommit
    \/ CreateSaveReject
    \/ CreateDone

\* The page used for creations only, the user typing a complete form or one
\* without a name, and every promise that handleCreateWallet awaits settling
\* at some time: the event loop then resumes the handler.
NextCreateFair ==
    EnvNext \/ CreateNext({FilledCreateWalletForm, [FilledCreateWalletForm EXCEPT !.name = ""]})

SpecCreateFair == Init /\ [][NextCreateFair]_vars /\ WF_vars(CreateResumes)

\* The calculations over what loadWallets can bring into the list: the
\* collection an earlier session left holds up to MaxSnapshot records whose
\* balanceUSD and change24h are any of a few amounts.
SnapshotBalances == {Zero, Norm(50, 0), Norm(100, 0), Norm(250, 0), Norm(0 - 20, 0)}
SnapshotChanges == {Zero, Norm(10, 0), Norm(0 - 5, 0), Norm(50, 0)}
SnapshotRecord(k, usd, chg) ==
    [OldWallet EXCEPT !.id = NumToString(k - 1), !.balanceUSD = usd, !.change24h = chg]
Snapshots ==
    UNION {{[k \in 1..n |-> SnapshotRecord(k, f[k][1], f[k][2])] :
              f \in [1..n -> SnapshotBalances \X SnapshotChanges]} : n \in 0..MaxSnapshot}

InitAggregate ==
    /\ db = FALSE
    /\ persisted \in Snapshots
    /\ clock = 1
    /\ wallets = <<>>
    /\ newWalletForm = EmptyNewWalletForm
    /\ createWalletForm = EmptyCreateWalletForm
    /\ isCreatingWallet = FALSE
    /\ showAddModal = FALSE
    /\ showCreateModal = FALSE
    /\ showSuccessModal = FALSE
    /\ newlyCreatedWallet = None
    /\ consoleOut = <<>>
    /\ alerts = None
    /\ returned = ""
    /\ ld = IdleLoad
    /\ aw = IdleAdd
    /\ cw = IdleCreate

SpecAggregate == InitAggregate /\ [][EnvNext]_vars

(* ------------------------------- claims --------------------------------- *)
\* the message alert() shows when a creation fails with error message `m`
CreateAlert(m) == Some(<<"Error creating wallet2: ", m>>)

\* C1: when the provider resolves with a response that has no key, the
\* creation request ends in that step with an error shown to the user
\* (alert), without saveWallet being called (the flow is back to idle, never
\* having been suspended in saveWallet), with the wallets list and the
\* collection as they were, no disclosure payload set and the success dialog
\* as it was.
C1_KeylessResponseFails ==
    [][(\E resp \in ProviderResponses : ~Truthy(resp.key) /\ ProviderResolveNoKey(resp))
         => /\ alerts' = CreateAlert(MissingKeyMessage)
            /\ cw'.pc = "idle"
            /\ cw.data = None
            /\ UNCHANGED <<persisted, wallets, newlyCreatedWallet, showSuccessModal>>]_vars

\* a keyless response has just been refused, no payload and no success dialog
C1_Witness ==
    /\ alerts = CreateAlert(MissingKeyMessage)
    /\ cw.pc = "idle"
    /\ newlyCreatedWallet = None
    /\ ~showSuccessModal
    /\ ~isCreatingWallet

\* a step in which a creation request ends in its catch block
CreateFails == cw.pc # "idle" /\ cw'.pc = "idle" /\ alerts' # None

\* a step in which a manual-add request ends in its catch block
AddFails == aw.pc # "idle" /\ aw'.pc = "idle" /\ consoleOut' # <<>>

\* what a request may write: the collection, the list, the disclosure payload
Written == <<persisted, wallets, newlyCreatedWallet>>

\* C2: a creation or manual-add request that fails (the provider call throws,
\* the response has no key, the sealing of the key or of the mnemonic throws,
\* saveWallet rejects) has written nothing: no step of a request changes the
\* collection, the wallets list or the disclosure payload before saveWallet
\* has committed, the failing step changes none of them, and no request fails
\* once saveWallet has committed.
C2_FailedRequestWritesNothing ==
    [][/\ (cw' # cw /\ "saved" \notin {cw.pc, cw'.pc}) => UNCHANGED Written
       /\ (aw' # aw /\ "saved" \notin {aw.pc, aw'.pc}) => UNCHANGED Written
       /\ CreateFails => cw.pc # "saved" /\ UNCHANGED Written
       /\ AddFails => aw.pc # "saved" /\ UNCHANGED Written]_vars

\* saveWallet has just rejected the record of a creation as a duplicate
C2_Witness ==
    /\ alerts = CreateAlert("DuplicateId")
    /\ cw.pc = "idle"
    /\ Len(persisted) > 0

\* the records handed to saveWallet (stored or not) or held in the wallets list
RecordsInPlay ==
    {persisted[k] : k \in 1..Len(persisted)}
    \cup {wallets[k] : k \in 1..Len(wallets)}
    \cup {d[1] : d \in {x \in {aw.data, cw.data} : x # None}}

\* the passphrases a user can submit the creation form with
Passphrases == {f.passphrase : f \in CreateWalletForms} \ {""}

\* blob is a seal of a secret of the provider under a passphrase of the user
SealedSecret(blob) ==
    \E pass \in Passphrases : \E x \in Secrets : OpenBlob(blob, pass) = Some(x)

\* C3: in every reachable state, no record handed to saveWallet or held in
\* the wallets list carries a plaintext key or mnemonic of the provider in a
\* text field; its encrypted fields are absent (manual add), or its
\* encryptedPrivateKey is a seal of a provider key under a passphrase a user
\* supplied, and so is its encryptedMnemonic when it has one; the record of
\* the creation in flight is sealed under the passphrase of that request.
C3_NoPlaintextInRecords ==
    /\ \A r \in RecordsInPlay :
         /\ {r.name, r.address, r.network} \cap Secrets = {}
         /\ \/ r.encryptedPrivateKey = None /\ r.encryptedMnemonic = None
            \/ /\ r.encryptedPrivateKey # None
               /\ SealedSecret(r.encryptedPrivateKey[1])
               /\ r.encryptedMnemonic # None => SealedSecret(r.encryptedMnemonic[1])
    /\ cw.data # None =>
         /\ OpenBlob(cw.data[1].encryptedPrivateKey[1], cw.form.passphrase) = cw.resp[1].key
         /\ cw.data[1].encryptedMnemonic # None =>
              OpenBlob(cw.data[1].encryptedMnemonic[1], cw.form.passphrase)
                = cw.resp[1].mnemonic

\* a created record, with both secrets sealed, is stored and listed next to a
\* manually added one
C3_Witness ==
    /\ \E k \in 1..Len(wallets) :
         wallets[k].encryptedPrivateKey # None /\ wallets[k].encryptedMnemonic # None
    /\ \E k \in 1..Len(persisted) : persisted[k].encryptedMnemonic # None
    /\ \E k \in 1..Len(persisted) : persisted[k].encryptedPrivateKey = None

\* the stored records that a creation made
CreatedRecords == {k \in 1..Len(persisted) : persisted[k].encryptedPrivateKey # None}

\* C4: a successful creation delivers its disclosure payload exactly once.
\* The payload is set in one step only, the one in which the handler resumes
\* after saveWallet has committed its record, to the address, key, mnemonic,
\* network and name of that request, with the success dialog opened; that
\* step ends the request, so it sets it once.  No other step sets a payload:
\* once the confirm button has cleared it, it stays null until another
\* creation has committed a record of its own.
C4_PayloadDeliveredOnce ==
    [][/\ (newlyCreatedWallet' # newlyCreatedWallet /\ newlyCreatedWallet' # None)
            => /\ cw.pc = "saved"
               /\ HasId(persisted, cw.data[1].id)
       /\ (cw.pc = "saved" /\ cw' # cw)
            => /\ newlyCreatedWallet' = Some(Disclosure(cw.form, cw.resp[1]))
               /\ showSuccessModal'
               /\ cw'.pc = "idle"
       /\ DismissSuccess => newlyCreatedWallet' = None]_vars

\* the payload of a first creation was delivered and then cleared by the
\* confirm button, and a second creation has committed its record since
C4_Witness ==
    /\ Cardinality(CreatedRecords) = 2
    /\ cw.pc = "saved"
    /\ newlyCreatedWallet = None
    /\ ~showSuccessModal

\* no two records of the sequence have the same id
UniqueIds(records) ==
    \A i, j \in 1..Len(records) : records[i].id = records[j].id => i = j

\* C5: after any sequence of creations and manual adds no two records of the
\* collection, and no two of the wallets list, have the same id; a request
\* whose id (Date.now().toString()) is the id of a stored record is rejected
\* by saveWallet: its next step ends it in the catch block and adds nothing
\* to the collection or to the list.
C5_UniqueIds ==
    [][/\ UniqueIds(persisted')
       /\ UniqueIds(wallets')
       /\ (aw.pc = "saving" /\ HasId(persisted, aw.data[1].id) /\ aw' # aw)
            => AddFails /\ UNCHANGED <<persisted, wallets>>
       /\ (cw.pc = "saving" /\ HasId(persisted, cw.data[1].id) /\ cw' # cw)
            => CreateFails /\ UNCHANGED <<persisted, wallets>>]_vars

\* saveWallet has just rejected a manual add whose id a stored record, also
\* in the list, already has
C5_Witness ==
    /\ consoleOut = <<LogEntry("error", "Error saving wallet:", "DuplicateId", None)>>
    /\ \E k \in 1..Len(persisted) : persisted[k].id = NumToString(clock)
    /\ \E k \in 1..Len(wallets) : wallets[k].id = NumToString(clock)

\* a step in which a write flow that saveWallet accepted resumes and ends
WriteFlowCompletes ==
    \/ cw.pc = "saved" /\ cw'.pc = "idle"
    \/ aw.pc = "saved" /\ aw'.pc = "idle"

\* C6: when two write flows with different ids overlap, neither erases the
\* record of the other: the step in which a write flow completes keeps in
\* the wallets list every record that a write flow of this session put in the
\* collection.  (The page does not have this property: the completing flow
\* writes back the list it captured when it was submitted.)
C6_NoLostUpdate ==
    [][WriteFlowCompletes =>
         \A k \in 1..Len(wallets) :
            wallets[k].id # OldWallet.id =>
               \E j \in 1..Len(wallets') : wallets'[j] = wallets[k]]_vars

\* blob is a seal of `secret` under `passphrase`, opening under no other one
SealOf(blob, secret, passphrase) ==
    /\ OpenBlob(blob, passphrase) = Some(secret)
    /\ \A other \in Passphrases \ {passphrase} : OpenBlob(blob, other) = None

\* the record r is the one a creation with form `form` makes of response `resp`
CreatedFrom(r, form, resp) ==
    /\ r.address = resp.address
    /\ r.name = form.name
    /\ r.network = form.network
    /\ r.balance = Zero /\ r.balanceUSD = Zero
    /\ r.change24h = Zero /\ r.changePercent24h = Zero
    /\ r.tokens = <<>> /\ r.transactions = <<>>
    /\ r.encryptedPrivateKey # None
    /\ SealOf(r.encryptedPrivateKey[1], resp.key[1], form.passphrase)
    /\ r.encryptedMnemonic # None <=> Truthy(resp.mnemonic)
    /\ r.encryptedMnemonic # None =>
         /\ SealOf(r.encryptedMnemonic[1], resp.mnemonic[1], form.passphrase)
         /\ r.encryptedMnemonic # r.encryptedPrivateKey

\* C7: a successful creation with form (name, network, passphrase) against a
\* response {address, key, mnemonic} adds exactly one record.  The request
\* runs with the form as it was submitted; the step in which saveWallet
\* commits appends one record to the collection, with the address of the
\* response, the name and network of the form, zero balance, balanceUSD,
\* change24h and changePercent24h, no tokens, no transactions,
\* encryptedPrivateKey the seal of the key under the passphrase, and
\* encryptedMnemonic a separate seal of the mnemonic under the same passphrase
\* exactly when the response has a mnemonic; no other step of the request
\* changes the collection, and its last step appends that record to the list.
C7_CreatedRecord ==
    [][/\ (cw.pc = "idle" /\ cw'.pc # "idle") => cw'.form = createWalletForm
       /\ (cw.pc = "saving" /\ cw'.pc = "saved")
            => /\ Len(persisted') = Len(persisted) + 1
               /\ persisted' = Append(persisted, persisted'[Len(persisted')])
               /\ CreatedFrom(persisted'[Len(persisted')], cw.form, cw.resp[1])
               /\ cw'.form = cw.form /\ cw'.resp = cw.resp
               /\ cw'.data = Some(persisted'[Len(persisted')])
       /\ (cw' # cw /\ ~(cw.pc = "saving" /\ cw'.pc = "saved")) => persisted' = persisted
       /\ (cw.pc = "saved" /\ cw' # cw)
            => /\ Len(wallets') = Len(cw.wallets) + 1
               /\ wallets' = Append(cw.wallets, cw.data[1])
               /\ CreatedFrom(wallets'[Len(wallets')], cw.form, cw.resp[1])]_vars

\* a creation under the second passphrase, against a response with a
\* mnemonic, has completed: its record is stored and listed
C7_Witness ==
    /\ cw.pc = "idle"
    /\ showSuccessModal
    /\ \E k \in 1..Len(persisted) :
         /\ persisted[k].encryptedMnemonic # None
         /\ SealOf(persisted[k].encryptedPrivateKey[1], "k1", "pw456")
         /\ \E j \in 1..Len(wallets) : wallets[j] = persisted[k]

\* a well-formed amount: digits with at most one decimal point
WellFormed(s) ==
    /\ \A i \in 1..Len(s) : s[i] \in Digits \cup {"."}
    /\ \E i \in 1..Len(s) : s[i] \in Digits
    /\ Cardinality({i \in 1..Len(s) : s[i] = "."}) <= 1

\* the digits of s right of position i
DigitsRightOf(s, i) == Cardinality({j \in (i + 1)..Len(s) : s[j] \in Digits})

\* the digits of s from position i on, each weighted by its place
RECURSIVE PlaceSum(_, _)
PlaceSum(s, i) ==
    IF i > Len(s) THEN 0
    ELSE (IF s[i] \in Digits THEN DigitVal(s[i]) * Pow10(DigitsRightOf(s, i)) ELSE 0)
         + PlaceSum(s, i + 1)

\* the number a well-formed amount denotes, by positional notation
NumericValue(s) ==
    LET point == {i \in 1..Len(s) : s[i] = "."}
        places == IF point = {} THEN 0 ELSE DigitsRightOf(s, CHOOSE i \in point : TRUE)
    IN  Norm(PlaceSum(s, 1), places)

\* the record r is the one a manual add makes of the form
AddedFrom(r, form) ==
    /\ r.name = form.name
    /\ r.address = form.address
    /\ r.network = form.network
    /\ r.balance = NumericValue(form.balance)
    /\ r.balanceUSD = NumericValue(form.balanceUSD)
    /\ r.change24h = Zero /\ r.changePercent24h = Zero
    /\ r.tokens = <<>> /\ r.transactions = <<>>
    /\ r.encryptedPrivateKey = None /\ r.encryptedMnemonic = None

\* C8: a successful manual add with well-formed inputs adds exactly one
\* record.  The record handed to saveWallet has the name, address and network
\* of the form, balance and balanceUSD the numbers the strings of the form
\* denote, change24h and changePercent24h 0, no tokens, no transactions and
\* no encrypted field; the step in which saveWallet commits appends that
\* record to the collection and no other step of the request changes the
\* collection; the last step appends it to the list; no step of the request
\* touches the creation flow, where the provider and the cipher are called.
C8_AddedRecord ==
    [][/\ ( /\ aw.pc = "idle" /\ aw'.pc # "idle"
            /\ WellFormed(newWalletForm.balance)
            /\ WellFormed(newWalletForm.balanceUSD) )
            => aw'.data # None /\ AddedFrom(aw'.data[1], newWalletForm)
       /\ (aw.pc = "saving" /\ aw'.pc = "saved")
            => persisted' = Append(persisted, aw.data[1]) /\ aw'.data = aw.data
       /\ (aw' # aw /\ ~(aw.pc = "saving" /\ aw'.pc = "saved")) => persisted' = persisted
       /\ (aw.pc = "saved" /\ aw' # aw) => wallets' = Append(aw.wallets, aw.data[1])
       /\ aw' # aw => UNCHANGED <<cw, isCreatingWallet, newlyCreatedWallet>>]_vars

\* the manual add of ("W2", "0xdef", "bnb", "1.5", "300.00") has completed:
\* its record, with balance 1.5 and balanceUSD 300, is stored and listed
C8_Witness ==
    /\ aw.pc = "idle"
    /\ \E k \in 1..Len(wallets) :
         /\ AddedFrom(wallets[k], FilledNewWalletForm)
         /\ wallets[k].balance = Norm(15, 1)
         /\ wallets[k].balanceUSD = Norm(300, 0)
         /\ \E j \in 1..Len(persisted) : persisted[j] = wallets[k]

\* one of name, address, balance, balanceUSD is missing from the form
MissingField(form) ==
    \/ form.name = ""
    \/ form.address = ""
    \/ form.balance = <<>>
    \/ form.balanceUSD = <<>>

\* a step in which the add form is submitted: the handler returns at its
\* guard, or goes on to call saveWallet
AddSubmitted == returned' = "add" \/ (aw.pc = "idle" /\ aw'.pc # "idle")

\* C9: a manual add in which name, address, balance or balanceUSD is missing
\* makes no saveWallet call (the handler returns at its guard, no add flow
\* is started) and leaves the wallets list, the collection and the form as
\* they were.
C9_MissingFieldRejected ==
    [][(AddSubmitted /\ MissingField(newWalletForm))
         => /\ returned' = "add"
            /\ UNCHANGED <<aw, wallets, persisted, newWalletForm>>]_vars

\* the add form has just been submitted with only its balance missing, the
\* db being open
C9_Witness ==
    /\ returned = "add"
    /\ db
    /\ newWalletForm = [FilledNewWalletForm EXCEPT !.balance = <<>>]

\* C10: a manual add whose balance or balanceUSD is a non-empty string that
\* is not a number fails before any saveWallet call: no record whose balance
\* or balanceUSD is NaN is ever in the collection or in the wallets list.
\* (The page does not have this property: handleAddWallet tests the strings
\* for emptiness only and stores what Number.parseFloat returns.)
C10_NoNaNRecord ==
    \A r \in {persisted[k] : k \in 1..Len(persisted)}
               \cup {wallets[k] : k \in 1..Len(wallets)} :
       ~r.balance.nan /\ ~r.balanceUSD.nan

\* the sum of a sequence of numbers, taken from its last element backwards
RECURSIVE SumFromRight(_)
SumFromRight(nums) ==
    IF nums = <<>> THEN Zero
    ELSE Add(nums[Len(nums)], SumFromRight(SubSeq(nums, 1, Len(nums) - 1)))

\* C11: in every reachable state, after any sequence of loads, creations
\* and manual adds, totalBalance is the sum of balanceUSD and totalChange the
\* sum of change24h over exactly the records now in the wallets list.
C11_TotalsOfCurrentList ==
    /\ totalBalance = SumFromRight([k \in 1..Len(wallets) |-> wallets[k].balanceUSD])
    /\ totalChange = SumFromRight([k \in 1..Len(wallets) |-> wallets[k].change24h])

\* the list holds the record of an earlier session and a manually added one,
\* and the totals are those of the two: 340 and 4
C11_Witness ==
    /\ Len(wallets) = 2
    /\ \E k \in 1..2 : wallets[k] = OldWallet
    /\ \E k \in 1..2 : AddedFrom(wallets[k], FilledNewWalletForm)
    /\ totalBalance = Norm(340, 0)
    /\ totalChange = Norm(4, 0)

\* p * d = c * 100, which is false when p is NaN or an infinity
ProductIsPercent(p, d, c) ==
    /\ ~p.nan /\ p.inf = 0 /\ ~d.nan /\ ~c.nan
    /\ p.num * d.m * Pow10(c.e) = 100 * c.m * p.den * Pow10(d.e)

C17_NoZeroDenominator ==
    Positive(totalBalance) =>
        /\ Sub(totalBalance, totalChange) # Zero
        /\ ~totalChangePercent.nan
        /\ totalChangePercent.inf = 0

\* C13: when saveWallet rejects the record of a creation because its id is
\* already stored, the request retries the insert with a fresh id and does
\* not show the duplicate-id failure to the user: the step that follows such
\* a saveWallet call does not alert DuplicateId and, unless the store failed
\* otherwise, leaves the request calling saveWallet with an id that is not
\* stored.  (The page does not have this property: every rejection goes to
\* the catch block.)
C13_DuplicateIdRetried ==
    [][(cw.pc = "saving" /\ HasId(persisted, cw.data[1].id) /\ cw' # cw)
         => /\ alerts' # CreateAlert("DuplicateId")
            /\ alerts' = None =>
                 /\ cw'.pc = "saving"
                 /\ ~HasId(persisted, cw'.data[1].id)]_vars

\* the position of record r in the sequence (records of a list are distinct)
PositionIn(records, r) == CHOOSE k \in 1..Len(records) : records[k] = r

\* the records that are in both lists are in the same order in both
SameOrder(before, after) ==
    \A i, j \in 1..Len(before) :
        (i < j /\ (\E k \in 1..Len(after) : after[k] = before[i])
               /\ (\E k \in 1..Len(after) : after[k] = before[j]))
          => PositionIn(after, before[i]) < PositionIn(after, before[j])

\* C14: the wallets list is in insertion order: the step in which a
\* successful creation or manual add completes appends its record at the end
\* of the list, and no step changes the relative order of the records
\* already in the list.  (The page does not have this property: a completing
\* request writes back the list it captured with its record at the end, which
\* is not the current list with the record appended when another flow has
\* changed the list meanwhile.)
C14_InsertionOrder ==
    [][/\ (cw.pc = "saved" /\ cw'.pc = "idle") => wallets' = Append(wallets, cw.data[1])
       /\ (aw.pc = "saved" /\ aw'.pc = "idle") => wallets' = Append(wallets, aw.data[1])
       /\ SameOrder(wallets, wallets')]_vars

\* the part of C14 that the page has: no step reorders the records that stay
\* in the list, and a completing request leaves its record last
C14_OrderKept ==
    [][/\ WriteFlowCompletes => Len(wallets') > 0
       /\ (cw.pc = "saved" /\ cw'.pc = "idle") => wallets'[Len(wallets')] = cw.data[1]
       /\ (aw.pc = "saved" /\ aw'.pc = "idle") => wallets'[Len(wallets')] = aw.data[1]
       /\ SameOrder(wallets, wallets')]_vars

\* the order of the steps of a creation request: Requesting, Sealing (the
\* key, then the mnemonic if any), Persisting (saveWallet called, then
\* committed), Disclosed; a request can fail from every step before the commit
StepOrder ==
    {<<"idle", "requesting">>, <<"requesting", "sealingKey">>,
     <<"sealingKey", "sealingMnemonic">>, <<"sealingKey", "saving">>,
     <<"sealingMnemonic", "saving">>, <<"saving", "saved">>, <<"saved", "idle">>}
    \cup {<<from, "idle">> : from \in {"requesting", "sealingKey", "sealingMnemonic", "saving"}}

\* C15: within every creation request the steps occur in the order
\* Requesting, Sealing, Persisting, Disclosed.  The provider is called once,
\* when the request starts, and a failed call ends the request with an alert
\* instead of a second call; sealing starts only when the provider has
\* returned a response with a key; saveWallet is called only when the key
\* and, if the response has one, the mnemonic have been sealed; the
\* disclosure payload is set only when saveWallet has committed.
C15_StepOrder ==
    [][/\ cw'.pc # cw.pc => <<cw.pc, cw'.pc>> \in StepOrder
       /\ (cw.pc = "requesting" /\ cw'.pc = "idle") => alerts' # None
       /\ cw'.pc = "requesting" => cw'.resp = None /\ cw'.epk = None /\ cw'.data = None
       /\ (cw.pc = "requesting" /\ cw'.pc = "sealingKey")
            => cw'.resp # None /\ Truthy(cw'.resp[1].key) /\ cw'.epk = None
       /\ (cw.pc # "saving" /\ cw'.pc = "saving")
            => /\ cw'.epk # None
               /\ OpenBlob(cw'.epk[1], cw.form.passphrase) = cw.resp[1].key
               /\ Truthy(cw.resp[1].mnemonic) =>
                    /\ cw'.emn # None
                    /\ OpenBlob(cw'.emn[1], cw.form.passphrase) = cw.resp[1].mnemonic
       /\ (newlyCreatedWallet' # newlyCreatedWallet /\ newlyCreatedWallet' # None)
            => cw.pc = "saved"]_vars

\* saveWallet has committed the record of a request whose key and mnemonic
\* were sealed, and the payload is not set yet
C15_Witness ==
    /\ cw.pc = "saved"
    /\ cw.epk # None
    /\ cw.emn # None
    /\ newlyCreatedWallet = None
    /\ isCreatingWallet

\* the plaintext secrets a console entry carries: the key and the mnemonic of
\* a provider response passed to console.log
LoggedSecrets(entry) ==
    IF entry.obj = None THEN {}
    ELSE {o[1] : o \in {x \in {entry.obj[1].key, entry.obj[1].mnemonic} : x # None}}

\* C16: on no path of a creation request, including a provider response that
\* carries a mnemonic but no key, is a plaintext key or mnemonic written to
\* the console.
C16_NoSecretLogged ==
    \A k \in 1..Len(consoleOut) : LoggedSecrets(consoleOut[k]) \cap Secrets = {}

\* C18: the disclosure payload is non-null only while the success dialog is
\* open; however the dialog is closed (its confirm button or its
\* onOpenChange), the payload is null afterwards.
C18_PayloadOnlyWhileOpen ==
    newlyCreatedWallet # None => showSuccessModal

\* the ids of the records of a list
IdsOf(records) == {records[k].id : k \in 1..Len(records)}

\* a step in which loadWallets resumes with what getAllWallets returned
LoadCompletes == ld.pc = "resolved" /\ ld'.pc = "idle"

\* C19: the wallets list and the persisted collection hold the same ids once
\* the operations in flight have finished; in particular the step in which a
\* load completes keeps in the wallets list every record that a creation or a
\* manual add has committed to the collection before.
C19_LoadKeepsCommitted ==
    [][LoadCompletes =>
         (IdsOf(wallets) \cap IdsOf(persisted)) \subseteq IdsOf(wallets')]_vars

====
